---- MODULE Spec2Model ----
(***************************************************************************)
(* A model of the student web service: the bootstrap (src/app.py), the     *)
(* four request handlers of StudentsServer, the StudentModel validator and *)
(* the request counters (src/application/app.py), run by a single-threaded *)
(* cooperative event loop against a document store.                        *)
(*                                                                         *)
(* Handlers are invoked the way src/tests/app_test.py invokes them, as     *)
(* coroutines of a constructed StudentsServer; a handler holds the event   *)
(* loop from the moment it starts (or resumes) until it awaits or returns. *)
(* gpa values are written in tenths (30 is 3.0).                           *)
(***************************************************************************)
EXTENDS Integers, Sequences, FiniteSets, TLC

VARIABLES bootpc, routes, listener, counters, store, storeMode, reqs, running,
          oidCounter

vars == <<bootpc, routes, listener, counters, store, storeMode, reqs, running,
          oidCounter>>

\* Bound of the model: the number of requests one behaviour receives.
MaxRequests == 3

----------------------------------------------------------------------------
(* Configuration: src/config/config.py and the literals of run_server.      *)

FASTAPI_PORT == 8081
KEEP_ALIVE_TIMEOUT == 90
GPA_LE == 40
HTTP_200_OK == 200
HTTP_201_CREATED == 201

----------------------------------------------------------------------------
(* Identifiers.  An identifier value is a pair <<representation, n>>: the   *)
(* bson ObjectId n, or a string.  <<"str", n>> with n >= 1 is the canonical *)
(* (lower-case) 24-hex-digit rendering of ObjectId n, <<"STR", n>> the same *)
(* digits written in upper case, and <<"str", 0>> a string that is no       *)
(* identifier token.                                                        *)

SuppliedIds == {1, 2}

ObjectId(value) == <<"ObjectId", value[2]>>

ObjectId_is_valid(value) == value[1] = "ObjectId" \/ value[2] >= 1

\* str(ObjectId): the lower-case hexadecimal rendering.
ObjectId_str(oid) == <<"str", oid[2]>>

\* PyObjectId(): the default factory makes a fresh identifier, distinct from
\* every earlier one; k identifiers were generated before.
PyObjectId_new(k) == <<"ObjectId", Cardinality(SuppliedIds) + k + 1>>

PyObjectId_validate(value) ==
  IF ~ObjectId_is_valid(value)
  THEN [ok |-> FALSE, value |-> value]
  ELSE [ok |-> TRUE, value |-> ObjectId(value)]

----------------------------------------------------------------------------
(* StudentModel.  An e-mail address is a pair <<local part, domain>>; the   *)
(* EmailStr field accepts an address whose domain is a known domain in any  *)
(* letter case and keeps the local part and the lower-cased domain.         *)

LowerCase == [d \in {"example.com", "EXAMPLE.COM"} |-> "example.com"]

EmailStr_validate(value) ==
  IF value[2] \in DOMAIN LowerCase
  THEN [ok |-> TRUE, value |-> <<value[1], LowerCase[value[2]]>>]
  ELSE [ok |-> FALSE, value |-> value]

RequiredFields == {"name", "email", "course", "gpa"}

\* The identifier of the model: the validated _id of the payload, or the
\* default factory's.
StudentModel_id(payload, k) ==
  IF "_id" \in DOMAIN payload
  THEN PyObjectId_validate(payload._id)
  ELSE [ok |-> TRUE, value |-> PyObjectId_new(k)]

\* A variant of the validator without the bound on gpa.
StudentModel_valid_no_le(payload, k) ==
  /\ RequiredFields \subseteq DOMAIN payload
  /\ StudentModel_id(payload, k).ok
  /\ EmailStr_validate(payload.email).ok

StudentModel_valid(payload, k) ==
  /\ RequiredFields \subseteq DOMAIN payload
  /\ StudentModel_id(payload, k).ok
  /\ EmailStr_validate(payload.email).ok
  /\ payload.gpa <= GPA_LE

\* The validated model object of a payload that StudentModel_valid accepts.
StudentModel(payload, k) ==
  [id     |-> StudentModel_id(payload, k).value,
   name   |-> payload.name,
   email  |-> EmailStr_validate(payload.email).value,
   course |-> payload.course,
   gpa    |-> payload.gpa]

\* A variant of jsonable_encoder that leaves the identifier an ObjectId.
jsonable_encoder_keeps_ObjectId(student) ==
  [_id    |-> student.id,
   name   |-> student.name,
   email  |-> student.email,
   course |-> student.course,
   gpa    |-> student.gpa]

\* jsonable_encoder(student): by alias, with json_encoders = {ObjectId: str}.
jsonable_encoder(student) ==
  [_id    |-> ObjectId_str(student.id),
   name   |-> student.name,
   email  |-> student.email,
   course |-> student.course,
   gpa    |-> student.gpa]

----------------------------------------------------------------------------
(* The document store: a set of documents, no two with the same _id.        *)

NoneDoc == [none |-> TRUE]
NoId == <<"None", 0>>

\* A variant of the insert that replaces a document with the same _id.
insert_one_upsert(docs, doc) ==
  [ok |-> TRUE, docs |-> {d \in docs : d._id # doc._id} \cup {doc},
   inserted_id |-> doc._id, error |-> ""]

insert_one(docs, doc) ==
  IF \E d \in docs : d._id = doc._id
  THEN [ok |-> FALSE, docs |-> docs, inserted_id |-> NoId,
        error |-> "DuplicateKeyError"]
  ELSE [ok |-> TRUE, docs |-> docs \cup {doc}, inserted_id |-> doc._id,
        error |-> ""]

find_one(docs, id) ==
  IF \E d \in docs : d._id = id
  THEN CHOOSE d \in docs : d._id = id
  ELSE NoneDoc

----------------------------------------------------------------------------
(* Responses.  A response is [status, body, fault]; an unhandled exception  *)
(* is the 500 response with the exception's name as its fault.              *)

NoBody == [none |-> TRUE]

Fault(exc) == [status |-> 500, body |-> NoBody, fault |-> exc]

\* json.dumps serialises strings and numbers; a bson ObjectId is not
\* serialisable.
Serializable(content) ==
  "_id" \in DOMAIN content => content._id[1] # "ObjectId"

JSONResponse(status_code, content) ==
  IF Serializable(content)
  THEN [status |-> status_code, body |-> content, fault |-> ""]
  ELSE Fault("TypeError")

----------------------------------------------------------------------------
(* The request counters (prometheus_client Counter objects).                *)

REQUESTS == "server_requests_total"
HEALTHCHECK_REQUESTS == "healthcheck_requests_total"
MAIN_ENDPOINT_REQUESTS == "main_requests_total"
STUDENT_CREATE_REQUESTS == "students_create_total"
JOKE_ENDPOINT_REQUESTS == "joke_requests_total"

EndpointCounters == {HEALTHCHECK_REQUESTS, MAIN_ENDPOINT_REQUESTS,
                     STUDENT_CREATE_REQUESTS, JOKE_ENDPOINT_REQUESTS}

CounterNames == {REQUESTS} \cup EndpointCounters

\* A variant of inc that loses an update of the total: it writes back the
\* value it read before an earlier increment.
inc_lost_update(c, name) ==
  IF name = "server_requests_total" /\ c[name] >= 1
  THEN c
  ELSE [c EXCEPT ![name] = @ + 1]

\* A variant of inc that counts a student creation twice in its own counter.
inc_twice(c, name) ==
  [c EXCEPT ![name] = @ + (IF name = "students_create_total" THEN 2 ELSE 1)]

\* Counter.inc(): one atomic add of 1.
inc(c, name) == [c EXCEPT ![name] = @ + 1]

----------------------------------------------------------------------------
(* The route table.  add_api_route reads the signature of the endpoint it   *)
(* is given; the endpoints are bound methods (self.health_check, ...), and  *)
(* the signature of a bound method exists only if the function declares a   *)
(* first parameter for the instance.                                        *)

HandlerParams ==
  [health_check   |-> <<"self">>,
   create_student |-> <<"self", "student">>,
   read_main      |-> <<"self">>,
   tell_joke      |-> <<>>]

BoundSignatureOk(endpoint) == Len(HandlerParams[endpoint]) >= 1

Registrations ==
  << [path |-> "/health",      methods |-> "GET",  endpoint |-> "health_check"],
     [path |-> "/api/student", methods |-> "POST", endpoint |-> "create_student"],
     [path |-> "/hello",       methods |-> "GET",  endpoint |-> "read_main"],
     [path |-> "/joke",        methods |-> "GET",  endpoint |-> "tell_joke"] >>

\* add_routes from registration i on: the routes added to table, and whether
\* a registration raised (the later ones are then never made).
RECURSIVE add_routes_from(_, _)
add_routes_from(i, table) ==
  IF i > Len(Registrations)
  THEN [routes |-> table, raised |-> FALSE]
  ELSE IF ~BoundSignatureOk(Registrations[i].endpoint)
       THEN [routes |-> table, raised |-> TRUE]
       ELSE add_routes_from(i + 1, table \cup {Registrations[i]})

add_routes(table) == add_routes_from(1, table)

NoListener == [port |-> 0, keep_alive_timeout |-> 0]

----------------------------------------------------------------------------
(* The names bound in the module of the handlers (its imports and its own   *)
(* definitions); a name used by a handler and bound nowhere raises          *)
(* NameError when the handler reaches it.                                   *)

ModuleGlobals ==
  {"Optional", "logging", "FastAPI", "Body", "status", "JSONResponse",
   "jsonable_encoder", "serve", "HyperCornConfig", "BaseModel", "Field",
   "EmailStr", "ObjectId", "Counter", "REQUESTS", "HEALTHCHECK_REQUESTS",
   "MAIN_ENDPOINT_REQUESTS", "STUDENT_CREATE_REQUESTS",
   "JOKE_ENDPOINT_REQUESTS", "PyObjectId", "StudentModel",
   "UpdateStudentModel", "app", "StudentsServer"}

\* What the joke provider may answer.
UpstreamReplies ==
  {[status_code |-> 200, setup |-> "Why?", punchline |-> "Because."],
   [status_code |-> 500, setup |-> "", punchline |-> ""]}

\* tell_joke after its two increments, for the provider's answer.  A handler
\* that returns a dict is answered with status 200.
tell_joke_result(response) ==
  IF "requests" \notin ModuleGlobals
  THEN Fault("NameError")
  ELSE IF response.status_code # 200
       THEN [status |-> 200, body |-> [error |-> "Failed to get a joke"],
             fault |-> ""]
       ELSE [status |-> 200,
             body |-> [setup |-> response.setup,
                       punchline |-> response.punchline],
             fault |-> ""]

\* A variant of the health check that reports the state of the store.
health_check_result_probes_store ==
  IF storeMode = "ok"
  THEN JSONResponse(HTTP_200_OK, [health |-> "ok"])
  ELSE JSONResponse(503, [health |-> "store unavailable"])

health_check_result == JSONResponse(HTTP_200_OK, [health |-> "ok"])

read_main_result == JSONResponse(HTTP_200_OK, [msg |-> "Hello World"])

----------------------------------------------------------------------------
(* Requests.                                                                *)

NoPayload == [none |-> TRUE]

\* The student payloads the clients post.
Payloads ==
  { [name |-> "Jane Doe", email |-> <<"jdoe", "example.com">>,
     course |-> "Nanophotonics", gpa |-> 30],
    [_id |-> <<"str", 1>>, name |-> "Jane Doe",
     email |-> <<"jdoe", "EXAMPLE.COM">>, course |-> "Nanophotonics",
     gpa |-> 40],
    [_id |-> <<"STR", 1>>, name |-> "John Roe",
     email |-> <<"jroe", "example.com">>, course |-> "Nanophotonics",
     gpa |-> 30],
    [_id |-> <<"str", 2>>, name |-> "Jane Doe",
     email |-> <<"jdoe", "example.com">>, course |-> "Nanophotonics",
     gpa |-> 41],
    [_id |-> <<"str", 0>>, name |-> "Jane Doe",
     email |-> <<"jdoe", "example.com">>, course |-> "Nanophotonics",
     gpa |-> 30],
    [email |-> <<"jdoe", "">>, course |-> "Nanophotonics", gpa |-> 30] }

StoreModes == {"ok", "failing", "stalled"}

\* A request as it is received: nothing done for it yet.
NewRequest(kind, payload) ==
  [kind |-> kind, payload |-> payload, pc |-> "inc2", entered |-> TRUE,
   student |-> NoBody, inserted_id |-> NoId, inserts |-> 0, finds |-> 0,
   steps |-> <<>>, status |-> 0, body |-> NoBody, fault |-> ""]

\* Request r ends with response resp.
Respond(r, resp) ==
  [r EXCEPT !.pc = "done", !.status = resp.status, !.body = resp.body,
            !.fault = resp.fault]

\* A variant of the find filter that asks for the identifier as an ObjectId.
find_filter_as_ObjectId(r) == ObjectId(r.inserted_id)

\* The _id that create_student asks find_one for: new_student.inserted_id.
find_filter(r) == r.inserted_id

\* A variant in which a handler keeps the loop while its call is pending (a
\* blocking call in place of an await).
Suspend_blocking(i) == i

\* Who holds the event loop once request i suspends at an await, or returns.
Suspend(i) == 0

Init ==
  /\ bootpc = "start"
  /\ routes = {}
  /\ listener = NoListener
  /\ counters = [n \in CounterNames |-> 0]
  /\ store = {}
  /\ storeMode = "ok"
  /\ reqs = <<>>
  /\ running = 0
  /\ oidCounter = 0

----------------------------------------------------------------------------
(* Bootstrap: src/app.py.                                                   *)

Container_init ==
  /\ bootpc = "start"
  /\ bootpc' = "constructed"
  /\ UNCHANGED <<routes, listener, counters, store, storeMode, reqs, running,
                 oidCounter>>

\* run_server: the routes are added, and serve() starts the listener unless
\* add_routes raised.
run_server ==
  /\ bootpc = "constructed"
  /\ LET added == add_routes(routes)
     IN /\ routes' = added.routes
        /\ IF added.raised
           THEN /\ bootpc' = "fault"
                /\ listener' = listener
           ELSE /\ bootpc' = "serving"
                /\ listener' = [port |-> FASTAPI_PORT,
                                keep_alive_timeout |-> KEEP_ALIVE_TIMEOUT]
  /\ UNCHANGED <<counters, store, storeMode, reqs, running, oidCounter>>

----------------------------------------------------------------------------
(* The handlers.  A handler starts when the loop is free.                   *)

CanStart ==
  /\ bootpc # "start"
  /\ running = 0
  /\ Len(reqs) < MaxRequests

Holds(i, kind) ==
  /\ i \in DOMAIN reqs
  /\ running = i
  /\ reqs[i].kind = kind
  /\ reqs[i].pc = "inc2"

read_main_begin ==
  /\ CanStart
  /\ reqs' = Append(reqs, NewRequest("hello", NoPayload))
  /\ counters' = inc(counters, REQUESTS)
  /\ running' = Len(reqs) + 1
  /\ UNCHANGED <<bootpc, routes, listener, store, storeMode, oidCounter>>

read_main_return ==
  /\ \E i \in DOMAIN reqs :
       /\ Holds(i, "hello")
       /\ counters' = inc(counters, MAIN_ENDPOINT_REQUESTS)
       /\ reqs' = [reqs EXCEPT ![i] = Respond(@, read_main_result)]
       /\ running' = Suspend(i)
  /\ UNCHANGED <<bootpc, routes, listener, store, storeMode, oidCounter>>

health_check_begin ==
  /\ CanStart
  /\ reqs' = Append(reqs, NewRequest("health", NoPayload))
  /\ counters' = inc(counters, REQUESTS)
  /\ running' = Len(reqs) + 1
  /\ UNCHANGED <<bootpc, routes, listener, store, storeMode, oidCounter>>

health_check_return ==
  /\ \E i \in DOMAIN reqs :
       /\ Holds(i, "health")
       /\ counters' = inc(counters, HEALTHCHECK_REQUESTS)
       /\ reqs' = [reqs EXCEPT ![i] = Respond(@, health_check_result)]
       /\ running' = Suspend(i)
  /\ UNCHANGED <<bootpc, routes, listener, store, storeMode, oidCounter>>

\* tell_joke declares no parameter, so its body runs only when the function
\* is called without an instance.
tell_joke_begin ==
  /\ CanStart
  /\ reqs' = Append(reqs, NewRequest("joke", NoPayload))
  /\ counters' = inc(counters, REQUESTS)
  /\ running' = Len(reqs) + 1
  /\ UNCHANGED <<bootpc, routes, listener, store, storeMode, oidCounter>>

tell_joke_return ==
  /\ \E i \in DOMAIN reqs, response \in UpstreamReplies :
       /\ Holds(i, "joke")
       /\ counters' = inc(counters, JOKE_ENDPOINT_REQUESTS)
       /\ reqs' = [reqs EXCEPT ![i] = Respond(@, tell_joke_result(response))]
       /\ running' = Suspend(i)
  /\ UNCHANGED <<bootpc, routes, listener, store, storeMode, oidCounter>>

\* POST /api/student with a body StudentModel rejects: the 422 answer is
\* made by the validator layer and create_student is not entered.
post_student_rejected ==
  /\ CanStart
  /\ \E payload \in Payloads :
       /\ ~StudentModel_valid(payload, oidCounter)
       /\ reqs' = Append(reqs,
            [NewRequest("student", payload) EXCEPT
               !.pc = "done", !.entered = FALSE, !.steps = <<"validate">>,
               !.status = 422, !.body = [detail |-> "validation error"]])
  /\ UNCHANGED <<bootpc, routes, listener, counters, store, storeMode,
                 running, oidCounter>>

create_student_begin ==
  /\ CanStart
  /\ \E payload \in Payloads :
       /\ StudentModel_valid(payload, oidCounter)
       /\ reqs' = Append(reqs,
            [NewRequest("student", payload) EXCEPT
               !.student = StudentModel(payload, oidCounter),
               !.steps = <<"validate">>])
       /\ oidCounter' = IF "_id" \in DOMAIN payload
                        THEN oidCounter ELSE oidCounter + 1
  /\ counters' = inc(counters, STUDENT_CREATE_REQUESTS)
  /\ running' = Len(reqs) + 1
  /\ UNCHANGED <<bootpc, routes, listener, store, storeMode>>

\* The second increment, the encoding, and the insert_one call, at which
\* the handler suspends.
create_student_insert ==
  /\ \E i \in DOMAIN reqs :
       /\ Holds(i, "student")
       /\ counters' = inc(counters, REQUESTS)
       /\ reqs' = [reqs EXCEPT
            ![i] = [@ EXCEPT !.student = jsonable_encoder(@),
                             !.inserts = @ + 1,
                             !.pc = "await_insert",
                             !.steps = @ \o <<"encode", "insert">>]]
       /\ running' = Suspend(i)
  /\ UNCHANGED <<bootpc, routes, listener, store, storeMode, oidCounter>>

\* The store answers the insert_one of request i; the handler resumes and,
\* unless the insert raised, calls find_one and suspends again.
store_insert_reply ==
  /\ running = 0
  /\ storeMode # "stalled"
  /\ \E i \in DOMAIN reqs :
       /\ reqs[i].pc = "await_insert"
       /\ LET new_student == insert_one(store, reqs[i].student)
          IN IF storeMode = "failing"
             THEN /\ reqs' = [reqs EXCEPT
                       ![i] = Respond(@, Fault("ConnectionFailure"))]
                  /\ store' = store
             ELSE IF ~new_student.ok
             THEN /\ reqs' = [reqs EXCEPT
                       ![i] = Respond(@, Fault(new_student.error))]
                  /\ store' = store
             ELSE /\ reqs' = [reqs EXCEPT
                       ![i] = [@ EXCEPT
                                 !.inserted_id = new_student.inserted_id,
                                 !.finds = @ + 1,
                                 !.pc = "await_find",
                                 !.steps = @ \o <<"find">>]]
                  /\ store' = new_student.docs
  /\ UNCHANGED <<bootpc, routes, listener, counters, storeMode, running,
                 oidCounter>>

\* The store answers the find_one of request i; the handler resumes and
\* returns the document it read.
store_find_reply ==
  /\ running = 0
  /\ storeMode # "stalled"
  /\ \E i \in DOMAIN reqs :
       /\ reqs[i].pc = "await_find"
       /\ IF storeMode = "failing"
          THEN reqs' = [reqs EXCEPT
                 ![i] = Respond(@, Fault("ConnectionFailure"))]
          ELSE LET created_student == find_one(store, find_filter(reqs[i]))
               IN reqs' = [reqs EXCEPT
                    ![i] = Respond([@ EXCEPT !.steps = @ \o <<"respond">>],
                             JSONResponse(HTTP_201_CREATED, created_student))]
  /\ UNCHANGED <<bootpc, routes, listener, counters, store, storeMode,
                 running, oidCounter>>

\* The store becomes unreachable, stops answering, or recovers.
store_change ==
  /\ \E m \in StoreModes \ {storeMode} : storeMode' = m
  /\ UNCHANGED <<bootpc, routes, listener, counters, store, reqs, running,
                 oidCounter>>

Next ==
  \/ Container_init
  \/ run_server
  \/ read_main_begin
  \/ read_main_return
  \/ health_check_begin
  \/ health_check_return
  \/ tell_joke_begin
  \/ tell_joke_return
  \/ post_student_rejected
  \/ create_student_begin
  \/ create_student_insert
  \/ store_insert_reply
  \/ store_find_reply
  \/ store_change

Spec == Init /\ [][Next]_vars

----------------------------------------------------------------------------
(* Properties.                                                              *)

Students == {i \in DOMAIN reqs : reqs[i].kind = "student"}

\* The requests whose handler was entered with a valid payload and has ended.
CreatedDone == {i \in Students : reqs[i].entered /\ reqs[i].pc = "done"}

Supplied(i) == "_id" \in DOMAIN reqs[i].payload

\* C1 as stated, read in its favour (a request that met an unreachable store
\* is excused, and strings are compared without regard to letter case):
\* every create_student call with a valid payload returns 201 with a body
\* whose name, email, course and gpa equal the payload's and whose _id is a
\* string equal to the supplied identifier, or to the one the store
\* returned when none was supplied.
C1_Original ==
  \A i \in CreatedDone :
    reqs[i].fault # "ConnectionFailure" =>
      /\ reqs[i].status = HTTP_201_CREATED
      /\ reqs[i].body.name = reqs[i].payload.name
      /\ reqs[i].body.email[1] = reqs[i].payload.email[1]
      /\ LowerCase[reqs[i].body.email[2]] = LowerCase[reqs[i].payload.email[2]]
      /\ reqs[i].body.course = reqs[i].payload.course
      /\ reqs[i].body.gpa = reqs[i].payload.gpa
      /\ reqs[i].body._id[1] \in {"str", "STR"}
      /\ reqs[i].body._id[2] = IF Supplied(i) THEN reqs[i].payload._id[2]
                               ELSE reqs[i].inserted_id[2]

\* C1 amended: a create_student call with a valid payload either faults on
\* the store (the store unreachable, or the identifier already held by a
\* document another request inserted), or returns 201 with a body whose
\* name, course and gpa equal the payload's, whose email is the payload's
\* with its domain in lower case, and whose _id is the string the store
\* returned: the lower-case rendering of the supplied identifier, or a
\* generated identifier when none was supplied.
C1_CreateReturnsValidated ==
  \A i \in CreatedDone :
    \/ reqs[i].fault = "ConnectionFailure"
    \/ /\ reqs[i].fault = "DuplicateKeyError"
       /\ \E j \in Students \ {i} :
            reqs[j].inserted_id = reqs[i].student._id
       /\ \E d \in store : d._id = reqs[i].student._id
    \/ /\ reqs[i].fault = ""
       /\ reqs[i].status = HTTP_201_CREATED
       /\ reqs[i].body.name = reqs[i].payload.name
       /\ reqs[i].body.email[1] = reqs[i].payload.email[1]
       /\ reqs[i].body.email[2] = "example.com"
       /\ reqs[i].body.course = reqs[i].payload.course
       /\ reqs[i].body.gpa = reqs[i].payload.gpa
       /\ reqs[i].body._id = reqs[i].inserted_id
       /\ reqs[i].body._id[1] = "str"
       /\ IF Supplied(i)
          THEN reqs[i].body._id[2] = reqs[i].payload._id[2]
          ELSE reqs[i].body._id[2] \notin SuppliedIds

\* Two creations returned 201, one with a supplied identifier written in
\* upper case and one with a generated identifier, and a third faulted on a
\* duplicate identifier.
C1_Witness ==
  \E i, j, k \in CreatedDone :
    /\ reqs[i].status = HTTP_201_CREATED /\ Supplied(i)
    /\ reqs[i].payload._id[1] = "STR"
    /\ reqs[j].status = HTTP_201_CREATED /\ ~Supplied(j)
    /\ reqs[k].fault = "DuplicateKeyError"

----------------------------------------------------------------------------

OverLimit(i) ==
  /\ i \in Students
  /\ "gpa" \in DOMAIN reqs[i].payload
  /\ reqs[i].payload.gpa > GPA_LE

\* C2: a POST /api/student whose gpa exceeds 4.0 is rejected before any
\* store interaction: it issues no insert and no find, create_student is
\* not entered, no document of it is ever in the store, and the step that
\* receives it leaves the documents of the store as they were.
C2_RejectedBeforeStore ==
  /\ [](\A i \in DOMAIN reqs :
          OverLimit(i) =>
            /\ reqs[i].pc = "done" /\ reqs[i].status = 422
            /\ ~reqs[i].entered
            /\ reqs[i].inserts = 0 /\ reqs[i].finds = 0
            /\ "_id" \in DOMAIN reqs[i].payload =>
                 \A d \in store : d._id[2] # reqs[i].payload._id[2])
  /\ [][(/\ Len(reqs') = Len(reqs) + 1
         /\ "gpa" \in DOMAIN reqs'[Len(reqs')].payload
         /\ reqs'[Len(reqs')].payload.gpa > GPA_LE) => store' = store]_vars

\* A request with gpa 4.1 was rejected while the store holds documents.
C2_Witness ==
  \E i \in DOMAIN reqs : OverLimit(i) /\ reqs[i].pc = "done" /\ store # {}

\* The requests of an endpoint that have made their increment of counter
\* name: create_student increments its own counter first, the other
\* handlers the total first.
Handled(kinds) ==
  {i \in DOMAIN reqs : reqs[i].kind \in kinds /\ reqs[i].entered}

Kinds == {"health", "hello", "student", "joke"}

FirstIsOwn(i) == reqs[i].kind = "student"

IncrementedOwn(kinds) ==
  {i \in Handled(kinds) : reqs[i].pc # "inc2" \/ FirstIsOwn(i)}

IncrementedTotal ==
  {i \in Handled(Kinds) : reqs[i].pc # "inc2" \/ ~FirstIsOwn(i)}

\* C3: every handled request adds exactly one to the total and exactly one
\* to the counter of its endpoint and nothing to the other three, whatever
\* the interleaving: each counter equals the number of requests that have
\* made that increment (no increment is lost, none is made twice), and no
\* counter ever decreases.
C3_CountersCountRequests ==
  /\ [](/\ counters[REQUESTS] = Cardinality(IncrementedTotal)
        /\ counters[HEALTHCHECK_REQUESTS]
             = Cardinality(IncrementedOwn({"health"}))
        /\ counters[MAIN_ENDPOINT_REQUESTS]
             = Cardinality(IncrementedOwn({"hello"}))
        /\ counters[STUDENT_CREATE_REQUESTS]
             = Cardinality(IncrementedOwn({"student"}))
        /\ counters[JOKE_ENDPOINT_REQUESTS]
             = Cardinality(IncrementedOwn({"joke"})))
  /\ [][\A n \in CounterNames : counters'[n] >= counters[n]]_vars

\* Requests of all four endpoints were handled, one creation still waiting
\* for the store.
C3_Witness ==
  /\ \A k \in Kinds \ {"hello"} : Handled({k}) # {}
  /\ \E i \in Students : reqs[i].pc = "await_insert"
  /\ counters[REQUESTS] = Cardinality(Handled(Kinds))
  /\ counters[REQUESTS] >= 3

\* C4: GET /joke always answers 200, with non-empty setup and punchline when
\* the provider answered, or with the error field when it failed; no other
\* status and no fault.
C4_JokeAlways200 ==
  \A i \in DOMAIN reqs :
    (reqs[i].kind = "joke" /\ reqs[i].pc = "done") =>
      /\ reqs[i].status = HTTP_200_OK
      /\ reqs[i].fault = ""
      /\ \/ reqs[i].body = [error |-> "Failed to get a joke"]
         \/ /\ DOMAIN reqs[i].body = {"setup", "punchline"}
            /\ reqs[i].body.setup # ""
            /\ reqs[i].body.punchline # ""

Pending(i) == reqs[i].pc \in {"await_insert", "await_find"}

\* C5: the health endpoint answers exactly {"health": "ok"} with status 200
\* whatever the state of the store: it issues no store call, and it can
\* start and return with the store empty or populated, answering, failing
\* or stalled.
C5_HealthIndependentOfStore ==
  /\ \A i \in DOMAIN reqs :
       (reqs[i].kind = "health" /\ reqs[i].pc = "done") =>
         /\ reqs[i].status = HTTP_200_OK
         /\ reqs[i].body = [health |-> "ok"]
         /\ reqs[i].fault = ""
         /\ reqs[i].inserts = 0 /\ reqs[i].finds = 0
  /\ CanStart => ENABLED health_check_begin
  /\ (\E i \in DOMAIN reqs : Holds(i, "health")) => ENABLED health_check_return

\* A health check returned as the last request, the store populated and
\* stalled with a creation waiting for it.
C5_Witness ==
  /\ reqs # <<>>
  /\ reqs[Len(reqs)].kind = "health" /\ reqs[Len(reqs)].status = HTTP_200_OK
  /\ storeMode = "stalled"
  /\ store # {}
  /\ \E i \in Students : Pending(i)

C7_BootstrapServesFourRoutes ==
  bootpc \in {"serving", "fault"} =>
    /\ bootpc = "serving"
    /\ routes = {Registrations[n] : n \in DOMAIN Registrations}
    /\ listener.port = FASTAPI_PORT
    /\ \A a, b \in routes :
         (a.path = b.path /\ a.methods = b.methods) => a = b

CreateSteps == <<"validate", "encode", "insert", "find", "respond">>

\* C8: create_student validates, encodes, inserts, re-reads by the
\* identifier the store returned and responds, in that order; in every
\* interleaving the re-read finds a document, and the 201 body is the
\* document the store holds under that identifier.
C8_CreateOrderAndReread ==
  \A i \in Students :
    /\ Len(reqs[i].steps) <= Len(CreateSteps)
    /\ reqs[i].steps = SubSeq(CreateSteps, 1, Len(reqs[i].steps))
    /\ reqs[i].pc = "await_find" =>
         \E d \in store : d._id = reqs[i].inserted_id
    /\ reqs[i].status = HTTP_201_CREATED =>
         /\ reqs[i].steps = CreateSteps
         /\ reqs[i].body # NoneDoc
         /\ reqs[i].body \in store
         /\ reqs[i].body._id = reqs[i].inserted_id
    /\ (reqs[i].pc = "done" /\ reqs[i].entered /\ reqs[i].fault = "") =>
         reqs[i].status = HTTP_201_CREATED

\* A creation returned 201 while an earlier creation, already inserted,
\* still waits for its re-read.
C8_Witness ==
  \E i, j \in Students :
    /\ j < i
    /\ reqs[i].status = HTTP_201_CREATED
    /\ reqs[j].pc = "await_find"
    /\ reqs[j].student \in store

\* C9: when a store call of create_student fails the request ends as a
\* fault without a 201, each store call is attempted at most once, a failed
\* insert leaves the documents of the store unchanged, and nothing undoes
\* an insert that succeeded: no document ever leaves the store and a
\* finished request does nothing more.
C9_StoreFailureNoRetryNoCompensation ==
  /\ [](\A i \in DOMAIN reqs :
          /\ reqs[i].inserts <= 1 /\ reqs[i].finds <= 1
          /\ reqs[i].fault # "" =>
               /\ reqs[i].pc = "done"
               /\ reqs[i].status # HTTP_201_CREATED
               /\ reqs[i].body = NoBody
          /\ (reqs[i].kind = "student" /\ reqs[i].fault # "") =>
               reqs[i].fault \in {"ConnectionFailure", "DuplicateKeyError"})
  /\ [][/\ store \subseteq store'
        /\ \A i \in DOMAIN reqs :
             /\ (reqs[i].pc = "await_insert" /\ reqs'[i].fault # "")
                  => store' = store
             /\ reqs[i].pc = "done" => reqs'[i] = reqs[i]]_vars

\* One creation faulted at its re-read with its document still in the
\* store, another faulted on a duplicate identifier.
C9_Witness ==
  \E i, j \in Students :
    /\ reqs[i].fault = "ConnectionFailure"
    /\ reqs[i].finds = 1
    /\ reqs[i].student \in store
    /\ reqs[j].fault = "DuplicateKeyError"
    /\ reqs[j].inserts = 1 /\ reqs[j].finds = 0

\* C10: whenever no handler is between its two increments, the total
\* counter equals the sum of the four endpoint counters, also after
\* requests that faulted.
C10_TotalIsSumOfEndpoints ==
  running = 0 =>
    counters[REQUESTS] =
        counters[HEALTHCHECK_REQUESTS] + counters[MAIN_ENDPOINT_REQUESTS]
      + counters[STUDENT_CREATE_REQUESTS] + counters[JOKE_ENDPOINT_REQUESTS]

\* The loop is free after a joke request and a creation both faulted and a
\* health check returned.
C10_Witness ==
  /\ running = 0
  /\ \E i, j, k \in DOMAIN reqs :
       /\ reqs[i].kind = "joke" /\ reqs[i].fault # ""
       /\ reqs[j].kind = "student" /\ reqs[j].fault # ""
       /\ reqs[k].kind = "health" /\ reqs[k].status = HTTP_200_OK

====
